---------------------------- MODULE Spec2Model ----------------------------
(***************************************************************************)
(* git-stats (src/src/main.rs): one pass over the commits reachable from   *)
(* HEAD, a per-commit classifier (time window, author identity, zero       *)
(* change), an aggregation map keyed by canonical author name, and a       *)
(* sorted report printed one row per author.                               *)
(*                                                                         *)
(* Strings that the program compares or searches (author names, e-mails)   *)
(* are sequences of byte values; Option<T> is the set {} (None) or {x}     *)
(* (Some(x)); an Ordering is -1 (Less), 0 (Equal) or 1 (Greater).          *)
(***************************************************************************)
EXTENDS Integers, Sequences, FiniteSets

VARIABLES
    cli,        \* the parsed command line (struct Cli)
    pc,         \* position of main: "open", "walk", "print", "done", "error"
    stats,      \* the aggregation map: canonical author name -> User
    walked,     \* the commits the revwalk has yielded so far, in traversal order
    verdicts,   \* per walked commit: which `continue` it took, or "kept"
    rows,       \* the sorted Vec<(String, User)> of the report
    idx,        \* position of the print loop in rows
    printed     \* the lines written to standard output

vars == <<cli, pc, stats, walked, verdicts, rows, idx, printed>>

(***************************************************************************)
(* Bounds of the model.                                                    *)
(***************************************************************************)
MaxCommits == 3      \* commits a revwalk yields
MaxTime == 3         \* commit times and time bounds are 1..MaxTime

(***************************************************************************)
(* Byte strings.                                                           *)
(***************************************************************************)
Dependabot == <<100, 101, 112, 101, 110, 100, 97, 98, 111, 116>>   \* "dependabot"
Root       == <<114, 111, 111, 116>>                               \* "root"
Ubuntu     == <<117, 98, 117, 110, 116, 117>>                      \* "ubuntu"

DependabotBot == Dependabot \o <<91, 98, 111, 116, 93>>            \* "dependabot[bot]"
Rooter     == Root \o <<101, 114>>                                 \* "rooter"
Alice      == <<97, 108, 105, 99, 101>>                            \* "alice"
Bob        == <<98, 111, 98>>                                      \* "bob"
Carol      == <<99, 97, 114, 111, 108>>                            \* "carol"

MailA      == <<97, 64, 120>>                                      \* "a@x"
MailB      == <<98, 64, 120>>                                      \* "b@x"
MailZ      == <<122, 64, 120>>                                     \* "z@x"

\* str::contains: pat occurs in s as a contiguous substring.
Contains(s, pat) ==
    \E i \in 0..(Len(s) - Len(pat)) :
        \A j \in 1..Len(pat) : s[i + j] = pat[j]

\* Ord for usize.
NumCmp(a, b) == IF a < b THEN -1 ELSE IF a > b THEN 1 ELSE 0

\* Ord for String: byte-wise lexicographic, a proper prefix is Less.
RECURSIVE StrCmpFrom(_, _, _)
StrCmpFrom(a, b, i) ==
    IF i > Len(a) /\ i > Len(b) THEN 0
    ELSE IF i > Len(a) THEN -1
    ELSE IF i > Len(b) THEN 1
    ELSE IF a[i] # b[i] THEN NumCmp(a[i], b[i])
    ELSE StrCmpFrom(a, b, i + 1)

StrCmp(a, b) == StrCmpFrom(a, b, 1)

(***************************************************************************)
(* The per-commit classifier.  A commit c is the record the loop body      *)
(* derives from the repository: canonical name and e-mail (after the       *)
(* mailmap), commit time, and the diff stats against the first parent      *)
(* restricted to the glob paths.                                           *)
(***************************************************************************)
\* Variant: the since bound excludes its own instant.
SinceSkipExclusive(c) == \E since \in cli.since : c.time <= since

SinceSkip(c)  == \E since \in cli.since : c.time < since
UntilSkip(c)  == \E un \in cli.until : c.time > un

BotSkip(c)    == ~cli.no_bot /\ Contains(c.name, Dependabot)
RootSkip(c)   == ~cli.no_root /\ c.name = Root
UbuntuSkip(c) == ~cli.no_ubuntu /\ c.name = Ubuntu

\* Variant: zero-change commits are not skipped.
ZeroSkipNever(c) == FALSE

ZeroSkip(c)   == c.insertions = 0 /\ c.deletions = 0

Classify(c) ==
    IF SinceSkip(c) THEN "since"
    ELSE IF UntilSkip(c) THEN "until"
    ELSE IF BotSkip(c) THEN "bot"
    ELSE IF RootSkip(c) THEN "root"
    ELSE IF UbuntuSkip(c) THEN "ubuntu"
    ELSE IF ZeroSkip(c) THEN "zero"
    ELSE "kept"

(***************************************************************************)
(* The aggregator: stats.entry(name).or_insert(User{..}) and the updates.  *)
(***************************************************************************)
OrInsert(st, c) ==
    IF c.name \in DOMAIN st THEN st[c.name]
    ELSE [email |-> c.email, time |-> c.time,
          commits |-> 0, added |-> 0, deleted |-> 0]

Put(st, name, entry) ==
    [n \in (DOMAIN st) \cup {name} |-> IF n = name THEN entry ELSE st[n]]

\* Variant: the commit counter is set, not incremented.
AggregateCountSet(st, c) ==
    Put(st, c.name, [OrInsert(st, c) EXCEPT
                        !.time = c.time,
                        !.commits = 1,
                        !.added = @ + c.insertions,
                        !.deleted = @ + c.deletions])

\* Variant: insertions and deletions are added to the wrong totals.
AggregateSwapped(st, c) ==
    Put(st, c.name, [OrInsert(st, c) EXCEPT
                        !.time = c.time,
                        !.commits = @ + 1,
                        !.added = @ + c.deletions,
                        !.deleted = @ + c.insertions])

\* Variant: the e-mail is overwritten like the time.
AggregateEmailOverwrite(st, c) ==
    Put(st, c.name, [OrInsert(st, c) EXCEPT
                        !.email = c.email,
                        !.time = c.time,
                        !.commits = @ + 1,
                        !.added = @ + c.insertions,
                        !.deleted = @ + c.deletions])

\* Variant: the time keeps the latest instant seen (max-by-time).
AggregateMaxTime(st, c) ==
    Put(st, c.name, [OrInsert(st, c) EXCEPT
                        !.time = IF c.time > @ THEN c.time ELSE @,
                        !.commits = @ + 1,
                        !.added = @ + c.insertions,
                        !.deleted = @ + c.deletions])

Aggregate(st, c) ==
    LET entry == [OrInsert(st, c) EXCEPT
                     !.time = c.time,
                     !.commits = @ + 1,
                     !.added = @ + c.insertions,
                     !.deleted = @ + c.deletions]
    IN  Put(st, c.name, entry)

(***************************************************************************)
(* The reporter.                                                           *)
(***************************************************************************)
KeyCmp(a, b) ==
    CASE cli.sort_by = "name"    -> StrCmp(a.name, b.name)
      [] cli.sort_by = "email"   -> StrCmp(a.email, b.email)
      [] cli.sort_by = "commits" -> NumCmp(a.commits, b.commits)
      [] cli.sort_by = "added"   -> NumCmp(a.added, b.added)
      [] cli.sort_by = "deleted" -> NumCmp(a.deleted, b.deleted)

\* Variant: the order flag is ignored.
CompareAscending(a, b) == KeyCmp(a, b)

\* The closure given to sort_by, on two (name, User) pairs.
Compare(a, b) ==
    LET cmp == KeyCmp(a, b)
    IN  IF cli.order = "asc" THEN cmp ELSE -cmp

\* slice::sort_by is stable: x goes after every element that is not Greater.
RECURSIVE InsertAt(_, _, _)
InsertAt(s, x, i) ==
    IF i > Len(s) THEN Append(s, x)
    ELSE IF Compare(x, s[i]) < 0
         THEN SubSeq(s, 1, i - 1) \o <<x>> \o SubSeq(s, i, Len(s))
         ELSE InsertAt(s, x, i + 1)

RECURSIVE SortFrom(_, _, _)
SortFrom(v, i, acc) ==
    IF i > Len(v) THEN acc ELSE SortFrom(v, i + 1, InsertAt(acc, v[i], 1))

SortBy(v) == SortFrom(v, 1, <<>>)

\* HashMap::into_iter: every entry once, in an order the map does not fix.
IterOrders(st) ==
    {o \in [1..Cardinality(DOMAIN st) -> DOMAIN st] :
        \A i, j \in DOMAIN o : i # j => o[i] # o[j]}

Collect(st, o) ==
    [i \in DOMAIN o |->
        [name |-> o[i], email |-> st[o[i]].email, time |-> st[o[i]].time,
         commits |-> st[o[i]].commits, added |-> st[o[i]].added,
         deleted |-> st[o[i]].deleted]]

RenderSkip(r) == r.added = 0 /\ r.deleted = 0

\* The println! of one row; the sentence embeds year and month of r.time.
Line(r) ==
    [module |-> cli.module, author |-> r.name, email |-> r.email,
     commits |-> r.commits, added |-> r.added, deleted |-> r.deleted,
     since |-> r.time]

(***************************************************************************)
(* The steps of main.                                                      *)
(***************************************************************************)
EmptyMap == [n \in {} |-> 0]

InitWith(Clis) ==
    /\ cli \in Clis
    /\ pc = "open"
    /\ stats = EmptyMap
    /\ walked = <<>>
    /\ verdicts = <<>>
    /\ rows = <<>>
    /\ idx = 1
    /\ printed = <<>>

\* Repository::open, revwalk, push_head, mailmap all succeed.
OpenRepo ==
    /\ pc = "open"
    /\ pc' = "walk"
    /\ UNCHANGED <<cli, stats, walked, verdicts, rows, idx, printed>>

\* One iteration of `for oid in revwalk` on commit c.
Visit(c) ==
    /\ pc = "walk"
    /\ Len(walked) < MaxCommits
    /\ walked' = Append(walked, c)
    /\ verdicts' = Append(verdicts, Classify(c))
    /\ stats' = IF Classify(c) = "kept" THEN Aggregate(stats, c) ELSE stats
    /\ UNCHANGED <<cli, pc, rows, idx, printed>>

\* Variant: on an error the rows aggregated so far are printed.
FailFlush ==
    /\ pc \in {"open", "walk"}
    /\ pc' = "error"
    /\ \E o \in IterOrders(stats) :
          printed' = [i \in DOMAIN o |-> Line(SortBy(Collect(stats, o))[i])]
    /\ UNCHANGED <<cli, stats, walked, verdicts, rows, idx>>

\* A `?` returns Err (or an unwrap panics) before or inside the loop: main
\* ends with the error.
Fail ==
    /\ pc \in {"open", "walk"}
    /\ pc' = "error"
    /\ UNCHANGED <<cli, stats, walked, verdicts, rows, idx, printed>>

\* The revwalk is exhausted: collect the map into a Vec and sort it.
EndWalk ==
    /\ pc = "walk"
    /\ \E o \in IterOrders(stats) : rows' = SortBy(Collect(stats, o))
    /\ idx' = 1
    /\ pc' = "print"
    /\ UNCHANGED <<cli, stats, walked, verdicts, printed>>

\* One iteration of the print loop.
PrintRow ==
    /\ pc = "print"
    /\ idx <= Len(rows)
    /\ printed' = IF RenderSkip(rows[idx]) THEN printed
                  ELSE Append(printed, Line(rows[idx]))
    /\ idx' = idx + 1
    /\ UNCHANGED <<cli, pc, stats, walked, verdicts, rows>>

\* Ok(())
Exit ==
    /\ pc = "print"
    /\ idx > Len(rows)
    /\ pc' = "done"
    /\ UNCHANGED <<cli, stats, walked, verdicts, rows, idx, printed>>

(***************************************************************************)
(* Command lines and repositories of the specifications.                   *)
(***************************************************************************)
CliDefault ==
    [since |-> {}, until |-> {}, sort_by |-> "commits", order |-> "desc",
     no_bot |-> FALSE, no_root |-> FALSE, no_ubuntu |-> FALSE, module |-> {}]

Commit(n, e, t, i, d) ==
    [name |-> n, email |-> e, time |-> t, insertions |-> i, deletions |-> d]

\* Aggregation: a time bound and the bot flag vary; three authors, e-mail
\* fixed per author, commits before and at the bound, with and without changes.
ClisAgg ==
    {[CliDefault EXCEPT !.since = s, !.no_bot = b] :
        s \in {{}, {2}}, b \in BOOLEAN}

MailOf(n) == IF n = Alice THEN MailA ELSE MailB

PoolAgg ==
    {Commit(n, MailOf(n), t, ch[1], ch[2]) :
        n \in {Alice, Bob, DependabotBot}, t \in {1, 2},
        ch \in {<<0, 0>>, <<1, 0>>, <<0, 2>>}}

Init == InitWith(ClisAgg)

Next ==
    \/ OpenRepo
    \/ \E c \in PoolAgg : Visit(c)
    \/ Fail
    \/ EndWalk
    \/ PrintRow
    \/ Exit

Spec == Init /\ [][Next]_vars

\* Counting: a since bound and every combination of the three flags; the
\* authors the identity checks name, commits before and at the bound, with
\* and without changes.
ClisCount ==
    {[CliDefault EXCEPT !.since = s, !.no_bot = b, !.no_root = r, !.no_ubuntu = n] :
        s \in {{}, {2}}, b \in BOOLEAN, r \in BOOLEAN, n \in BOOLEAN}

PoolCount ==
    {Commit(n, MailOf(n), t, ch, ch) :
        n \in {Alice, Root, Ubuntu, DependabotBot}, t \in {1, 2}, ch \in {0, 1}}

InitCount == InitWith(ClisCount)

NextCount ==
    \/ OpenRepo
    \/ \E c \in PoolCount : Visit(c)
    \/ Fail
    \/ EndWalk
    \/ PrintRow
    \/ Exit

SpecCount == InitCount /\ [][NextCount]_vars

\* Last-write fields: one author key seen with several e-mails and times,
\* in any traversal order.
ClisLast ==
    {[CliDefault EXCEPT !.since = s] : s \in {{}, {2}}}

PoolLast ==
    {Commit(n, e, t, ch, ch) :
        n \in {Alice, Bob}, e \in {MailA, MailB}, t \in {1, 2, 3}, ch \in {0, 1}}

InitLast == InitWith(ClisLast)

NextLast ==
    \/ OpenRepo
    \/ \E c \in PoolLast : Visit(c)
    \/ Fail
    \/ EndWalk
    \/ PrintRow
    \/ Exit

SpecLast == InitLast /\ [][NextLast]_vars

\* Identity filter: every combination of the three flags, with and without
\* a since bound; the authors the checks name and a name that resembles one.
ClisIdentity ==
    {[CliDefault EXCEPT !.since = s, !.no_bot = b, !.no_root = r, !.no_ubuntu = n] :
        s \in {{}, {2}}, b \in BOOLEAN, r \in BOOLEAN, n \in BOOLEAN}

PoolIdentity ==
    {Commit(n, MailA, t, 1, 1) :
        n \in {Alice, Root, Rooter, Ubuntu, DependabotBot}, t \in {1, 2}}

InitIdentity == InitWith(ClisIdentity)

NextIdentity ==
    \/ OpenRepo
    \/ \E c \in PoolIdentity : Visit(c)
    \/ Fail
    \/ EndWalk
    \/ PrintRow
    \/ Exit

SpecIdentity == InitIdentity /\ [][NextIdentity]_vars

\* Time filter: every since and until bound, absent or at any instant, and
\* commits at every instant.
TimeBounds == {{}} \cup {{t} : t \in 1..MaxTime}

ClisTime ==
    {[CliDefault EXCEPT !.since = s, !.until = u] : s \in TimeBounds, u \in TimeBounds}

PoolTime ==
    {Commit(n, MailOf(n), t, 1, 0) : n \in {Alice, Bob}, t \in 1..MaxTime}

InitTime == InitWith(ClisTime)

NextTime ==
    \/ OpenRepo
    \/ \E c \in PoolTime : Visit(c)
    \/ Fail
    \/ EndWalk
    \/ PrintRow
    \/ Exit

SpecTime == InitTime /\ [][NextTime]_vars

\* Report: every sort field and order, with and without a module label;
\* authors whose e-mails order differently from their names.
ClisReport ==
    {[CliDefault EXCEPT !.sort_by = f, !.order = o, !.module = m] :
        f \in {"name", "email", "commits", "added", "deleted"},
        o \in {"asc", "desc"}, m \in {{}, {"core"}}}

MailOfReport(n) == IF n = Alice THEN MailZ ELSE IF n = Bob THEN MailA ELSE MailB

PoolReport ==
    {Commit(n, MailOfReport(n), 1, ch[1], ch[2]) :
        n \in {Alice, Bob, Carol}, ch \in {<<1, 0>>, <<0, 1>>, <<2, 1>>}}

InitReport == InitWith(ClisReport)

NextReport ==
    \/ OpenRepo
    \/ \E c \in PoolReport : Visit(c)
    \/ Fail
    \/ EndWalk
    \/ PrintRow
    \/ Exit

SpecReport == InitReport /\ [][NextReport]_vars

(***************************************************************************)
(* Vocabulary of the properties.                                           *)
(***************************************************************************)
Traversed == pc \in {"print", "done"}

AuthorsSeen == {walked[i].name : i \in DOMAIN walked} \cup DOMAIN stats

CommitsOf(N) == IF N \in DOMAIN stats THEN stats[N].commits ELSE 0

\* The time window, both ends inclusive.
InWindow(c) ==
    /\ cli.since = {} \/ \A s \in cli.since : c.time >= s
    /\ cli.until = {} \/ \A u \in cli.until : c.time <= u

\* The i-th walked commit passed the time filter and was not skipped by an
\* identity check.
PassesFilters(i) ==
    InWindow(walked[i]) /\ verdicts[i] \notin {"bot", "root", "ubuntu"}

NonZero(c) == c.insertions + c.deletions > 0

\* The walked commits of author N that reached the aggregator.
KeptOf(N) == {i \in DOMAIN walked : walked[i].name = N /\ verdicts[i] = "kept"}

FirstOf(S) == CHOOSE i \in S : \A j \in S : i <= j
LastOf(S)  == CHOOSE i \in S : \A j \in S : j <= i

RECURSIVE SumOver(_, _)
SumOver(S, field) ==
    IF S = {} THEN 0
    ELSE LET i == CHOOSE x \in S : TRUE
         IN  walked[i][field] + SumOver(S \ {i}, field)

(***************************************************************************)
(* C1.  As claimed: after the traversal, the commits counter of every      *)
(* author name N equals the number of walked commits of N that pass the    *)
(* time filter and the identity filter, and nothing else decides.          *)
(***************************************************************************)
C1_CountsTimeAndIdentityOnly ==
    Traversed =>
        \A N \in AuthorsSeen :
            CommitsOf(N) =
                Cardinality({i \in DOMAIN walked :
                                walked[i].name = N /\ PassesFilters(i)})

(***************************************************************************)
(* C1, amended.  After the traversal, the commits counter of every author  *)
(* name N equals the number of walked commits of N that pass the time      *)
(* filter, are not skipped by an identity check, and change at least one   *)
(* line (insertions + deletions > 0).                                      *)
(***************************************************************************)
C1_CountsFilteredNonZero ==
    Traversed =>
        \A N \in AuthorsSeen :
            CommitsOf(N) =
                Cardinality({i \in DOMAIN walked :
                                /\ walked[i].name = N
                                /\ PassesFilters(i)
                                /\ NonZero(walked[i])})

\* A bot author kept by the flags, with a counted commit, a zero-change
\* commit that passed both filters and a commit before the since bound.
C1_Witness ==
    /\ Traversed
    /\ \E N \in DOMAIN stats :
          /\ Contains(N, Dependabot)
          /\ stats[N].commits = 1
          /\ \E i, j \in DOMAIN walked :
                /\ walked[i].name = N /\ PassesFilters(i) /\ ~NonZero(walked[i])
                /\ walked[j].name = N /\ ~InWindow(walked[j])

(***************************************************************************)
(* C2.  After the traversal, every author entry holds as added the sum of  *)
(* the insertions and as deleted the sum of the deletions of exactly the   *)
(* walked commits of that name which the classifier did not skip, and only *)
(* names with such a commit have an entry.                                 *)
(***************************************************************************)
C2_TotalsAreSumsOfKept ==
    Traversed =>
        /\ DOMAIN stats = {N \in AuthorsSeen : KeptOf(N) # {}}
        /\ \A N \in DOMAIN stats :
              /\ stats[N].added = SumOver(KeptOf(N), "insertions")
              /\ stats[N].deleted = SumOver(KeptOf(N), "deletions")

\* Two kept commits of one author with different stats, and a skipped one.
C2_Witness ==
    /\ Traversed
    /\ \E N \in DOMAIN stats :
          /\ Cardinality(KeptOf(N)) = 2
          /\ stats[N].added = 1
          /\ stats[N].deleted = 2
    /\ \E i \in DOMAIN walked : verdicts[i] # "kept"

(***************************************************************************)
(* C3.  As claimed: the flags are opt-in exclusions.  A commit inside the  *)
(* time window whose name contains "dependabot" is skipped by the bot      *)
(* check iff no_bot is set; one named exactly "root" (resp. "ubuntu") is   *)
(* skipped iff no_root (resp. no_ubuntu) is set.                           *)
(***************************************************************************)
C3_FlagsAreOptInExclusions ==
    \A i \in DOMAIN walked :
        LET c == walked[i] IN
        InWindow(c) =>
            /\ Contains(c.name, Dependabot) => (verdicts[i] = "bot" <=> cli.no_bot)
            /\ c.name = Root => (verdicts[i] = "root" <=> cli.no_root)
            /\ c.name = Ubuntu => (verdicts[i] = "ubuntu" <=> cli.no_ubuntu)

(***************************************************************************)
(* C4.  Every visit decides the time filter inclusively on both ends: the  *)
(* commit is skipped by the since or until check iff its time is before    *)
(* since or after until, and a commit outside the window leaves the        *)
(* aggregation map unchanged.                                              *)
(***************************************************************************)
C4_TimeWindowInclusive ==
    [][Len(walked') = Len(walked) + 1 =>
          LET c == walked'[Len(walked')]
              v == verdicts'[Len(verdicts')]
          IN  /\ InWindow(c) <=> v \notin {"since", "until"}
              /\ ~InWindow(c) => stats' = stats]_vars

\* With since = until, a commit exactly at that instant was aggregated, one a
\* second before since and one a second after until were skipped, and their
\* author has no entry.
C4_Witness ==
    \E i, j, k \in DOMAIN walked :
        /\ cli.since = {walked[i].time} /\ cli.until = {walked[i].time}
        /\ verdicts[i] = "kept"
        /\ cli.since = {walked[j].time + 1} /\ verdicts[j] = "since"
        /\ cli.until = {walked[k].time - 1} /\ verdicts[k] = "until"
        /\ walked[j].name = walked[k].name
        /\ walked[j].name \notin DOMAIN stats

(***************************************************************************)
(* C5.  The printed rows are ordered by the selected key: an earlier row's *)
(* key is <= a later row's when the order is asc and >= when it is desc;   *)
(* with the default flags a row with strictly more commits comes first.    *)
(***************************************************************************)
LineKeyCmp(x, y) ==
    CASE cli.sort_by = "name"    -> StrCmp(x.author, y.author)
      [] cli.sort_by = "email"   -> StrCmp(x.email, y.email)
      [] cli.sort_by = "commits" -> NumCmp(x.commits, y.commits)
      [] cli.sort_by = "added"   -> NumCmp(x.added, y.added)
      [] cli.sort_by = "deleted" -> NumCmp(x.deleted, y.deleted)

C5_RowsOrderedByKey ==
    \A i, j \in DOMAIN printed :
        i < j =>
            /\ cli.order = "asc" => LineKeyCmp(printed[i], printed[j]) <= 0
            /\ cli.order = "desc" => LineKeyCmp(printed[i], printed[j]) >= 0
            /\ (cli.sort_by = "commits" /\ cli.order = "desc")
                  => printed[i].commits >= printed[j].commits

\* Default flags; the author walked first has fewer commits and is printed
\* second.
C5_Witness ==
    /\ pc = "done"
    /\ cli = CliDefault
    /\ Len(printed) = 2
    /\ printed[1].commits > printed[2].commits
    /\ walked[1].name = printed[2].author

(***************************************************************************)
(* C6.  As claimed: the printed order is a function of the commits and the *)
(* flags; whatever order the map is iterated in, the sorted rows are the   *)
(* same.                                                                   *)
(***************************************************************************)
C6_OrderIndependentOfIteration ==
    Traversed => \A o \in IterOrders(stats) : SortBy(Collect(stats, o)) = rows

(***************************************************************************)
(* C7.  No row is printed before the traversal has ended without error: a  *)
(* run that failed has printed nothing.                                    *)
(***************************************************************************)
C7_NoOutputOnError ==
    /\ pc = "error" => printed = <<>>
    /\ printed # <<>> => Traversed

\* The run failed after commits had been aggregated.
C7_Witness ==
    pc = "error" /\ Cardinality(DOMAIN stats) >= 2

(***************************************************************************)
(* C8.  As claimed: the e-mail stored and printed for author N is that of  *)
(* the last processed qualifying commit of N.                              *)
(***************************************************************************)
C8_EmailLastWriteWins ==
    Traversed =>
        /\ \A N \in DOMAIN stats :
              stats[N].email = walked[LastOf(KeptOf(N))].email
        /\ \A k \in DOMAIN printed :
              printed[k].email = walked[LastOf(KeptOf(printed[k].author))].email

(***************************************************************************)
(* C8, amended.  The e-mail of an entry is set when the entry is created   *)
(* and never overwritten: after the traversal the e-mail stored and        *)
(* printed for author N is that of the first processed qualifying commit   *)
(* of N, also when later qualifying commits of N carry another e-mail.     *)
(***************************************************************************)
C8_EmailFirstWriteWins ==
    Traversed =>
        /\ \A N \in DOMAIN stats :
              stats[N].email = walked[FirstOf(KeptOf(N))].email
        /\ \A k \in DOMAIN printed :
              printed[k].email = walked[FirstOf(KeptOf(printed[k].author))].email

\* An author was printed whose first and last qualifying commits differ in
\* e-mail.
C8_Witness ==
    /\ pc = "done"
    /\ \E k \in DOMAIN printed :
          LET K == KeptOf(printed[k].author)
          IN  walked[FirstOf(K)].email # walked[LastOf(K)].email

(***************************************************************************)
(* C9.  The time of an entry is last-write-wins under traversal order:     *)
(* after the traversal the time stored and printed for author N is that of *)
(* the last processed qualifying commit of N, whether or not an earlier    *)
(* one is later in time.                                                   *)
(***************************************************************************)
C9_TimeLastWriteWins ==
    Traversed =>
        /\ \A N \in DOMAIN stats :
              stats[N].time = walked[LastOf(KeptOf(N))].time
        /\ \A k \in DOMAIN printed :
              printed[k].since = walked[LastOf(KeptOf(printed[k].author))].time

\* An author was printed whose last qualifying commit is earlier in time than
\* a qualifying commit processed before it.
C9_Witness ==
    /\ pc = "done"
    /\ \E k \in DOMAIN printed :
          LET K == KeptOf(printed[k].author)
          IN  \E i \in K : walked[i].time > walked[LastOf(K)].time

(***************************************************************************)
(* C10.  In every state each entry of the map has commits >= 1 and         *)
(* added + deleted >= 1; the print loop skips no row, and at the end the   *)
(* number of printed rows is the number of entries, which is the number of *)
(* distinct names with a qualifying commit that changes a line.            *)
(***************************************************************************)
C10_EntriesNonZero ==
    /\ \A N \in DOMAIN stats :
          stats[N].commits >= 1 /\ stats[N].added + stats[N].deleted >= 1
    /\ Traversed => Len(printed) = idx - 1
    /\ pc = "done" =>
          /\ Len(printed) = Cardinality(DOMAIN stats)
          /\ Len(printed) =
                Cardinality({walked[i].name : i \in
                                {j \in DOMAIN walked :
                                    PassesFilters(j) /\ NonZero(walked[j])}})

\* Two rows were printed after a walk that met a zero-change commit inside
\* the filters.
C10_Witness ==
    /\ pc = "done"
    /\ Len(printed) = 2
    /\ \E i \in DOMAIN walked : verdicts[i] = "zero"

=============================================================================
